---- MODULE Spec2Model ----
(***************************************************************************)
(* Patch extraction for super-resolution training data (preprocess.py).    *)
(*                                                                         *)
(* An image is a record of its dimensions and of where its pixels come     *)
(* from; decoding, resampling kernels and PNG encoding are opaque.  A      *)
(* directory is a function from file names to the patches saved under      *)
(* them.  The module-wide pseudorandom source is a generator of a small    *)
(* period whose output stream is fixed but unknown (chosen in Init).       *)
(* Double-precision arithmetic is computed exactly on fractions; where the *)
(* exact value sits on a tie (a comparison with equal sides, a fraction of *)
(* one half to round) the rounding error of the double decides, and the    *)
(* model admits both outcomes.                                             *)
(***************************************************************************)
EXTENDS Integers, Sequences, FiniteSets, TLC

(* ------------------------------ constants ------------------------------ *)

HR_PATCH == 384
LR_PATCH == 96
UPSCALE == HR_PATCH \div LR_PATCH
PATCHES_PER_IMAGE == 6
MODE == "generate"
RANDOM_CROP == TRUE
SEED == 201
MIN_HR_DIM == HR_PATCH

(* ------------------------------- bounds -------------------------------- *)

\* Period of the pseudorandom generator.
TapeLen == 2
\* The generator's raw outputs are 0 .. MaxRaw (a quantile of the range asked).
MaxRaw == 1
\* Image dimensions are taken within Slack of each patch size (and a few others).
Slack == 1
\* Number of source files in the input folder.
MaxFiles == 2
\* A failing save is the one after 0 .. MaxOkSaves successful ones.
MaxOkSaves == 1

(* ------------------------------ arithmetic ----------------------------- *)

Min(a, b) == IF a <= b THEN a ELSE b
Max(a, b) == IF a >= b THEN a ELSE b
Abs(a) == IF a >= 0 THEN a ELSE -a

\* Python's round() of the fraction num/den (num >= 0, den > 0): to the
\* nearest integer, a half to the even neighbour.  In ensure_min_size the
\* product w * (min_size / min(w, h)) is a half only when the smaller side is
\* 256 (for 384) or 64 (for 96); the scale is then 1.5 and the double exact.
round(num, den) ==
    LET q == num \div den
        r == num % den
    IN  IF 2 * r < den THEN q
        ELSE IF 2 * r > den THEN q + 1
        ELSE IF q % 2 = 0 THEN q ELSE q + 1

\* round() of a double whose exact value is num/den and which carries
\* rounding error: off a tie the nearest integer; on a tie the error decides
\* (up: the double lies above the half).
round_inexact(num, den, up) ==
    LET q == num \div den
        r == num % den
    IN  IF 2 * r < den THEN q
        ELSE IF 2 * r > den THEN q + 1
        ELSE IF up THEN q + 1 ELSE q

\* a/b > c/d on doubles carrying rounding error (b, d > 0): the exact
\* comparison, and on a tie whatever the error makes of it.
gt_inexact(a, b, c, d, up) ==
    IF a * d = c * b THEN up ELSE a * d > c * b

(* ------------------------------- images -------------------------------- *)

\* A decoded image: its size, the file it was read from, and whether it has
\* been resampled since.
Image(src, w, h) == [w |-> w, h |-> h, src |-> src, resampled |-> FALSE]

\* img.crop((left, top, right, bottom)): a patch of exactly the box's size.
Crop(img, left, top, right, bottom) ==
    [w |-> right - left, h |-> bottom - top, src |-> img.src,
     box |-> <<left, top, right, bottom>>, of |-> <<img.w, img.h>>,
     filter |-> "none"]

\* patch.resize(size, BICUBIC)
Resize(patch, w, h) == [patch EXCEPT !.w = w, !.h = h, !.filter = "BICUBIC"]

\* The scale taken from the larger side instead of the smaller.
ensure_min_size_by_max(img, min_size) ==
    LET m == Max(img.w, img.h)
    IN  IF Min(img.w, img.h) >= min_size THEN img
        ELSE [img EXCEPT !.w = round(img.w * min_size, m),
                         !.h = round(img.h * min_size, m),
                         !.resampled = TRUE]

\* int() without round(): the new size truncated.
ensure_min_size_trunc(img, min_size) ==
    LET m == Min(img.w, img.h)
    IN  IF m >= min_size THEN img
        ELSE [img EXCEPT !.w = (img.w * min_size) \div m,
                         !.h = (img.h * min_size) \div m,
                         !.resampled = TRUE]

ensure_min_size(img, min_size) ==
    LET m == Min(img.w, img.h)
    IN  IF m >= min_size THEN img
        ELSE [img EXCEPT !.w = round(img.w * min_size, m),
                         !.h = round(img.h * min_size, m),
                         !.resampled = TRUE]

center_crop(img, crop_w, crop_h) ==
    LET left == Max(0, (img.w - crop_w) \div 2)
        top == Max(0, (img.h - crop_h) \div 2)
    IN  [patch |-> Crop(img, left, top, left + crop_w, top + crop_h),
         off |-> <<left, top>>]

downsample(patch, out_w, out_h) == Resize(patch, out_w, out_h)

(* ------------------------------- state --------------------------------- *)

VARIABLES
    pc,         \* "idle" | "loop" | "done" | "raised" | "returned"
    run,        \* 1 for the first process, 2 for the process started again
    mode,       \* batch_process's mode argument
    hr_files,   \* the enumerated source files, in enumeration order
    idx,        \* number of files the batch loop has gone through
    processed,  \* batch_process's counter
    errors,     \* paths reported with [ERROR], in order
    hrDir,      \* output hr/ directory: file name -> patch
    lrDir,      \* output lr/ directory: file name -> patch
    dirs,       \* the output directories batch_process has found or made
    opened,     \* paths Image.open was called on
    rng,        \* state of the module-wide pseudorandom generator
    tape,       \* the generator's output in each of its states, <<>> until
                \* the first draw shows which generator it is
    crops,      \* every crop taken by this process: <<path, index, left, top>>
    prevCrops,  \* the crops of the first process, kept when started again
    before,     \* the output folder as it was when batch_process was called
    ret         \* what the last library call was given and returned

vars == <<pc, run, mode, hr_files, idx, processed, errors, hrDir, lrDir, dirs,
          opened, rng, tape, crops, prevCrops, before, ret>>

(* ------------------------- pseudorandom source ------------------------- *)

\* random.seed(s): the generator state a seed leads to.
random_seed(s) == s % TapeLen

\* An off-by-one drawing range (randrange's bound taken as inclusive + 1).
randint_past(a, b, g) ==
    [val |-> a + (g.tape[g.s] * (b - a + 1)) \div MaxRaw,
     rng |-> [g EXCEPT !.s = (@ + 1) % TapeLen, !.drawn = TRUE]]

\* random.randint(a, b) on generator g (its state g.s, its output g.tape in
\* each state, g.drawn once it has been drawn from): a value of a .. b (both
\* ends included), the raw output taken as a quantile; the generator advances.
randint(a, b, g) ==
    [val |-> a + (g.tape[g.s] * (b - a)) \div MaxRaw,
     rng |-> [g EXCEPT !.s = (@ + 1) % TapeLen, !.drawn = TRUE]]

random_crop(img, crop_w, crop_h, g) ==
    IF img.w = crop_w /\ img.h = crop_h
    THEN [patch |-> Crop(img, 0, 0, img.w, img.h), off |-> <<0, 0>>, rng |-> g]
    ELSE LET max_left == Max(0, img.w - crop_w)
             max_top == Max(0, img.h - crop_h)
             left == randint(0, max_left, g)
             top == randint(0, max_top, left.rng)
         IN  [patch |-> Crop(img, left.val, top.val,
                             left.val + crop_w, top.val + crop_h),
              off |-> <<left.val, top.val>>, rng |-> top.rng]

(* ------------------------------ file names ----------------------------- *)

RECURSIVE Digits(_)
\* The decimal digits of i >= 0.
Digits(i) == IF i < 10 THEN <<i>> ELSE Append(Digits(i \div 10), i % 10)

RECURSIVE ZeroPad(_, _)
ZeroPad(ds, width) == IF Len(ds) >= width THEN ds ELSE ZeroPad(<<0>> \o ds, width)

\* f"{base}{tag}{i:03d}.png"
PatchName(base, tag, i) == [stem |-> base, tag |-> tag, num |-> ZeroPad(Digits(i), 3)]

\* Path(p).stem
Stem(p) == p.stem

\* patch.save(dir/name, "PNG"): the name now holds the patch, whatever it held.
Save(dir, name, patch) == (name :> patch) @@ dir

(* ----------------------------- generate mode --------------------------- *)

\* The save call numbered s of a process_generate_mode call raises.
SaveFails(f, s) == f.fault.kind = "save" /\ f.fault.after = s

\* Body of the loop of process_generate_mode for patch i; st is the state the
\* call has built so far.
GeneratePatch(img, f, i, random_crop_enabled, st) ==
    LET c == IF random_crop_enabled /\ img.w > HR_PATCH /\ img.h > HR_PATCH
             THEN random_crop(img, HR_PATCH, HR_PATCH, st.rng)
             ELSE [patch |-> center_crop(img, HR_PATCH, HR_PATCH).patch,
                   off |-> center_crop(img, HR_PATCH, HR_PATCH).off,
                   rng |-> st.rng]
        lr_patch == downsample(c.patch, LR_PATCH, LR_PATCH)
        out == PatchName(Stem(f.path), "_p", i)
        cropped == [st EXCEPT !.rng = c.rng,
                              !.crops = Append(@, <<f.path, i, c.off[1], c.off[2]>>)]
    IN  IF SaveFails(f, 2 * i)
        THEN [cropped EXCEPT !.exc = TRUE]
        ELSE IF SaveFails(f, 2 * i + 1)
        THEN [cropped EXCEPT !.hr = Save(@, out, c.patch), !.exc = TRUE]
        ELSE [cropped EXCEPT !.hr = Save(@, out, c.patch),
                             !.lr = Save(@, out, lr_patch)]

RECURSIVE GenerateLoop(_, _, _, _, _, _)
\* for i in range(patches_per_image), left at the first exception.
GenerateLoop(img, f, i, patches_per_image, random_crop_enabled, st) ==
    IF i >= patches_per_image \/ st.exc THEN st
    ELSE GenerateLoop(img, f, i + 1, patches_per_image, random_crop_enabled,
                      GeneratePatch(img, f, i, random_crop_enabled, st))

\* process_generate_mode(f.path, hr, lr, patches_per_image, random_crop_enabled)
\* with generator g: the directories, the generator and the crops it leaves,
\* and whether it raised.
process_generate_mode(f, hr, lr, patches_per_image, random_crop_enabled, g) ==
    LET st0 == [hr |-> hr, lr |-> lr, rng |-> g, crops |-> <<>>, exc |-> FALSE]
    IN  IF f.fault.kind = "load"
        THEN [st0 EXCEPT !.exc = TRUE]
        ELSE GenerateLoop(ensure_min_size(Image(f.path, f.w, f.h), MIN_HR_DIM),
                          f, 0, patches_per_image, random_crop_enabled, st0)

(* ------------------------------ paired mode ---------------------------- *)

\* The upper limit left out.
ClampLow(x, hi) == Max(0, x)

\* min(max(0, x), hi)
Clamp(x, hi) == Min(Max(0, x), hi)

\* abs(scale_w - scale_h) > 0.1 for images of the sizes given: the exact
\* difference is |hr_w*lr_h - hr_h*lr_w| / (lr_w*lr_h).
AspectMismatch(hr_img, lr_img, up) ==
    gt_inexact(Abs(hr_img.w * lr_img.h - hr_img.h * lr_img.w),
               lr_img.w * lr_img.h, 1, 10, up)

\* scale = (scale_w + scale_h) / 2.0 as the fraction num/den.
ScaleNum(hr_img, lr_img) == hr_img.w * lr_img.h + hr_img.h * lr_img.w
ScaleDen(hr_img, lr_img) == 2 * lr_img.w * lr_img.h

\* The deviation taken with its sign: only too large a scale is caught.
ScaleMismatchSigned(hr_img, lr_img) ==
    2 * (ScaleNum(hr_img, lr_img) - UPSCALE * ScaleDen(hr_img, lr_img))
        > ScaleDen(hr_img, lr_img)

\* abs(scale - UPSCALE) > 0.5.  The doubles decide this one as the exact
\* fractions do, ties included.
ScaleMismatch(hr_img, lr_img) ==
    2 * Abs(ScaleNum(hr_img, lr_img) - UPSCALE * ScaleDen(hr_img, lr_img))
        > ScaleDen(hr_img, lr_img)

\* Body of the loop of process_paired_mode for patch i.  ups[1], ups[2] say
\* which way a tie in rounding hr_left, hr_top goes.
PairedPatch(hr_img, lr_img, base, i, random_crop_enabled, ups, st) ==
    LET c == IF random_crop_enabled /\ lr_img.w > LR_PATCH /\ lr_img.h > LR_PATCH
             THEN random_crop(lr_img, LR_PATCH, LR_PATCH, st.rng)
             ELSE [patch |-> center_crop(lr_img, LR_PATCH, LR_PATCH).patch,
                   off |-> center_crop(lr_img, LR_PATCH, LR_PATCH).off,
                   rng |-> st.rng]
        l_left == c.off[1]
        l_top == c.off[2]
        num == ScaleNum(hr_img, lr_img)
        den == ScaleDen(hr_img, lr_img)
        hr_left == Clamp(round_inexact(l_left * num, den, ups[1]),
                         hr_img.w - HR_PATCH)
        hr_top == Clamp(round_inexact(l_top * num, den, ups[2]),
                        hr_img.h - HR_PATCH)
        hr_patch == Crop(hr_img, hr_left, hr_top, hr_left + HR_PATCH, hr_top + HR_PATCH)
        lr_patch_resized == Resize(c.patch, LR_PATCH, LR_PATCH)
        out == PatchName(base, "_paired_p", i)
    IN  [st EXCEPT !.rng = c.rng,
                   !.crops = Append(@, <<lr_img.src, i, l_left, l_top>>),
                   !.hr = Save(@, out, hr_patch),
                   !.lr = Save(@, out, lr_patch_resized)]

RECURSIVE PairedLoop(_, _, _, _, _, _, _, _)
\* for i in range(patches)
PairedLoop(hr_img, lr_img, base, i, patches, random_crop_enabled, ups, st) ==
    IF i >= patches THEN st
    ELSE PairedLoop(hr_img, lr_img, base, i + 1, patches, random_crop_enabled, ups,
                    PairedPatch(hr_img, lr_img, base, i, random_crop_enabled, ups, st))

\* The number of patches of a pair that passed both checks.
PairedPatches(random_crop_enabled) == IF random_crop_enabled THEN 3 ELSE 1

\* process_paired_mode(hf.path, lf.path, hr, lr, random_crop_enabled) on two
\* readable files with generator g.  up says which way a tie in the first
\* check goes, ups the ties in rounding the offsets.
process_paired_mode(hf, lf, hr, lr, random_crop_enabled, g, up, ups) ==
    LET lr_img == ensure_min_size(Image(lf.path, lf.w, lf.h), LR_PATCH)
        hr_img == ensure_min_size(Image(hf.path, hf.w, hf.h), HR_PATCH)
        st0 == [hr |-> hr, lr |-> lr, rng |-> g, crops |-> <<>>, exc |-> FALSE]
    IN  IF AspectMismatch(hr_img, lr_img, up)
        THEN process_generate_mode(hf, hr, lr, 1, random_crop_enabled, g)
        ELSE IF ScaleMismatch(hr_img, lr_img)
        THEN process_generate_mode(hf, hr, lr, 1, random_crop_enabled, g)
        ELSE PairedLoop(hr_img, lr_img, Stem(hf.path), 0,
                        PairedPatches(random_crop_enabled), random_crop_enabled,
                        ups, st0)

(* ------------------------------- inputs -------------------------------- *)

Near(c) == (c - Slack) .. (c + Slack)

\* Widths and heights the library calls are tried on.
Dims == (1 .. Slack) \cup Near(LR_PATCH) \cup Near(HR_PATCH) \cup {64, 65, 200, 256, 257, 500}

\* Widths and heights the crop functions are tried on.
CropImageDims == Near(LR_PATCH) \cup Near(HR_PATCH) \cup {1, 500}

\* Crop sizes the crop functions are tried with.
CropDims == {LR_PATCH, HR_PATCH}

NoFault == [kind |-> "none", after |-> 0]

\* What can go wrong with a source file: it cannot be decoded ("load"), or
\* the save after so many successful ones fails ("save").
File(dir, stem, w, h, fault) ==
    [path |-> [dir |-> dir, stem |-> stem], w |-> w, h |-> h, fault |-> fault]

\* The source files of a batch: one to upscale, one to crop at random, one
\* that cannot be decoded, and one with a save that fails.
BatchFiles ==
    {<<200, 200, NoFault>>, <<HR_PATCH + 1, HR_PATCH + 2, NoFault>>,
     <<200, 200, [kind |-> "load", after |-> 0]>>}
        \cup {<<HR_PATCH + 1, HR_PATCH + 2, [kind |-> "save", after |-> n]>> :
                 n \in 0 .. MaxOkSaves}

\* The folders a batch runs on: up to MaxFiles files of distinct stems, in
\* enumeration order.
Folders ==
    UNION {{[i \in 1 .. n |-> File("data/hr", i, c[i][1], c[i][2], c[i][3])] :
               c \in [1 .. n -> BatchFiles]} : n \in 0 .. MaxFiles}

Modes == {"generate", "paired"}

\* High-resolution and low-resolution sizes process_paired_mode is tried on.
PairedHR == {<<436, 437>>, <<400, 400>>, <<576, 576>>, <<400, 500>>, <<384, 390>>, <<450, 450>>, <<300, 300>>}
PairedLR == {<<97, 97>>, <<100, 100>>, <<96, 96>>, <<96, 100>>, <<110, 110>>, <<50, 50>>}

EmptyDir == [n \in {} |-> NoFault]

HR_OUT == "processed/hr"
LR_OUT == "processed/lr"

(* ------------------------------- actions ------------------------------- *)

\* The generators the process may turn out to hold: any, until it has drawn.
Tapes == IF tape = <<>> THEN [0 .. TapeLen - 1 -> 0 .. MaxRaw] ELSE {tape}

\* The module-wide generator, should it be the one of outputs t.
Generator(t) == [s |-> rng, tape |-> t, drawn |-> FALSE]

\* What is known of the generator after a call that left it as g.
Observed(g) == IF g.drawn THEN g.tape ELSE tape

\* The generator state a starting process is left with by line 16; entropy
\* is what an unseeded generator would start from.
StartProcessUnseeded(entropy) == random_seed(entropy)
StartProcess(entropy) == random_seed(SEED)

Init ==
    /\ pc = "idle"
    /\ run = 1
    /\ mode = MODE
    /\ hr_files = <<>>
    /\ idx = 0
    /\ processed = 0
    /\ errors = <<>>
    /\ hrDir = EmptyDir
    /\ lrDir = EmptyDir
    /\ dirs = {}
    /\ opened = {}
    /\ tape = <<>>
    /\ \E entropy \in 0 .. TapeLen - 1 : rng = StartProcess(entropy)
    /\ crops = <<>>
    /\ prevCrops = <<>>
    /\ before = [dirs |-> {}, hr |-> EmptyDir, lr |-> EmptyDir]
    /\ ret = [op |-> "none"]

\* Any mode taken for "generate".
ModeBranchAny(m) == "loop"

\* if mode == "generate": the loop; else: raise ValueError.
ModeBranch(m) == IF m = "generate" THEN "loop" ELSE "raised"

\* What the batch does with a file whose extraction raised: "loop" to go on
\* with the next file, "raised" to let the exception end the run.
OnErrorPropagate == "raised"
OnError == "loop"

\* batch_process(hr_folder, output_folder, mode) up to its loop: the output
\* directories are made, the folder is enumerated, the mode is looked at.
\* A process started again is given the folder and the mode of the first.
BatchStart ==
    /\ pc = "idle"
    /\ \E files \in (IF run = 1 THEN Folders ELSE {hr_files}),
          m \in (IF run = 1 THEN Modes ELSE {mode}) :
          /\ hr_files' = files
          /\ mode' = m
          /\ pc' = ModeBranch(m)
    /\ before' = [dirs |-> dirs, hr |-> hrDir, lr |-> lrDir]
    /\ dirs' = dirs \cup {HR_OUT, LR_OUT}
    /\ idx' = 0
    /\ processed' = 0
    /\ errors' = <<>>
    /\ UNCHANGED <<run, hrDir, lrDir, opened, rng, tape, crops, prevCrops, ret>>

\* One turn of the loop of batch_process: the try and its except.
BatchFile ==
    /\ pc = "loop"
    /\ idx < Len(hr_files)
    /\ \E t \in Tapes :
       LET f == hr_files[idx + 1]
           r == process_generate_mode(f, hrDir, lrDir, PATCHES_PER_IMAGE,
                                      RANDOM_CROP, Generator(t))
       IN  /\ hrDir' = r.hr
           /\ lrDir' = r.lr
           /\ rng' = r.rng.s
           /\ tape' = Observed(r.rng)
           /\ crops' = crops \o r.crops
           /\ opened' = opened \cup {f.path}
           /\ processed' = IF r.exc THEN processed ELSE processed + 1
           /\ errors' = IF r.exc THEN Append(errors, f.path) ELSE errors
           /\ pc' = IF r.exc THEN OnError ELSE "loop"
    /\ idx' = idx + 1
    /\ UNCHANGED <<run, mode, hr_files, dirs, prevCrops, before, ret>>

\* The loop is over: the summary is printed and batch_process returns.
BatchFinish ==
    /\ pc = "loop"
    /\ idx = Len(hr_files)
    /\ pc' = "done"
    /\ UNCHANGED <<run, mode, hr_files, idx, processed, errors, hrDir, lrDir, dirs,
                   opened, rng, tape, crops, prevCrops, before, ret>>

\* The program is started a second time on the same folder: a new process
\* imports the module (the generator is seeded again); the output folder is
\* as the first process left it.
Rerun ==
    /\ pc = "done"
    /\ run = 1
    /\ run' = 2
    /\ pc' = "idle"
    /\ \E entropy \in 0 .. TapeLen - 1 : rng' = StartProcess(entropy)
    /\ prevCrops' = crops
    /\ crops' = <<>>
    /\ opened' = {}
    /\ idx' = 0
    /\ processed' = 0
    /\ errors' = <<>>
    /\ UNCHANGED <<mode, hr_files, hrDir, lrDir, dirs, tape, before, ret>>

\* A call of ensure_min_size from the fresh process.
EnsureMinSizeCall ==
    /\ pc = "idle"
    /\ run = 1
    /\ \E w \in Dims, h \in Dims, min_size \in CropDims :
          ret' = [op |-> "ensure_min_size", img |-> Image("x", w, h),
                  min_size |-> min_size,
                  out |-> ensure_min_size(Image("x", w, h), min_size)]
    /\ pc' = "returned"
    /\ UNCHANGED <<run, mode, hr_files, idx, processed, errors, hrDir, lrDir, dirs,
                   opened, rng, tape, crops, prevCrops, before>>

\* A call of center_crop from the fresh process.
CenterCropCall ==
    /\ pc = "idle"
    /\ run = 1
    /\ \E w \in CropImageDims, h \in CropImageDims,
          crop_w \in CropDims, crop_h \in CropDims :
          LET c == center_crop(Image("x", w, h), crop_w, crop_h)
          IN  ret' = [op |-> "center_crop", img |-> Image("x", w, h),
                      crop_w |-> crop_w, crop_h |-> crop_h,
                      patch |-> c.patch, off |-> c.off]
    /\ pc' = "returned"
    /\ UNCHANGED <<run, mode, hr_files, idx, processed, errors, hrDir, lrDir, dirs,
                   opened, rng, tape, crops, prevCrops, before>>

\* A call of random_crop from the fresh process.
RandomCropCall ==
    /\ pc = "idle"
    /\ run = 1
    /\ \E w \in CropImageDims, h \in CropImageDims,
          crop_w \in CropDims, crop_h \in CropDims, t \in Tapes :
          LET c == random_crop(Image("x", w, h), crop_w, crop_h,
                               Generator(t))
          IN  /\ ret' = [op |-> "random_crop", img |-> Image("x", w, h),
                         crop_w |-> crop_w, crop_h |-> crop_h,
                         patch |-> c.patch, off |-> c.off]
              /\ rng' = c.rng.s
              /\ tape' = Observed(c.rng)
    /\ pc' = "returned"
    /\ UNCHANGED <<run, mode, hr_files, idx, processed, errors, hrDir, lrDir, dirs,
                   opened, crops, prevCrops, before>>

\* A call of process_generate_mode on a readable file, into empty output
\* directories.
GenerateCall ==
    /\ pc = "idle"
    /\ run = 1
    /\ \E w \in Dims, h \in Dims, n \in {1, PATCHES_PER_IMAGE},
          random_crop_enabled \in BOOLEAN, t \in Tapes :
          LET f == File("data/hr", 1, w, h, NoFault)
              r == process_generate_mode(f, hrDir, lrDir, n, random_crop_enabled,
                                         Generator(t))
          IN  /\ ret' = [op |-> "process_generate_mode", hf |-> f, n |-> n,
                         random_crop_enabled |-> random_crop_enabled, exc |-> r.exc]
              /\ hrDir' = r.hr
              /\ lrDir' = r.lr
              /\ rng' = r.rng.s
              /\ tape' = Observed(r.rng)
              /\ crops' = crops \o r.crops
              /\ opened' = opened \cup {f.path}
    /\ pc' = "returned"
    /\ UNCHANGED <<run, mode, hr_files, idx, processed, errors, dirs,
                   prevCrops, before>>

\* A call of process_paired_mode on two readable files of the same stem, into
\* empty output directories.
PairedCall ==
    /\ pc = "idle"
    /\ run = 1
    /\ \E hs \in PairedHR, ls \in PairedLR, random_crop_enabled \in BOOLEAN,
          up \in BOOLEAN, ups \in [1 .. 2 -> BOOLEAN], t \in Tapes :
          LET hf == File("data/hr", 1, hs[1], hs[2], NoFault)
              lf == File("data/lr", 1, ls[1], ls[2], NoFault)
              r == process_paired_mode(hf, lf, hrDir, lrDir, random_crop_enabled,
                                       Generator(t), up, ups)
          IN  /\ ret' = [op |-> "process_paired_mode", hf |-> hf, lf |-> lf,
                         random_crop_enabled |-> random_crop_enabled, exc |-> r.exc]
              /\ hrDir' = r.hr
              /\ lrDir' = r.lr
              /\ rng' = r.rng.s
              /\ tape' = Observed(r.rng)
              /\ crops' = crops \o r.crops
              /\ opened' = opened \cup {hf.path, lf.path}
    /\ pc' = "returned"
    /\ UNCHANGED <<run, mode, hr_files, idx, processed, errors, dirs,
                   prevCrops, before>>

Next ==
    \/ BatchStart
    \/ BatchFile
    \/ BatchFinish
    \/ Rerun
    \/ EnsureMinSizeCall
    \/ CenterCropCall
    \/ RandomCropCall
    \/ GenerateCall
    \/ PairedCall

Spec == Init /\ [][Next]_vars

(* ------------------------------ properties ----------------------------- *)

\* The name {stem}{tag}00i of patch i < 10, written out.
Named(stem, tag, i) == [stem |-> stem, tag |-> tag, num |-> <<0, 0, i>>]

\* A box <<left, top, right, bottom>> lies within an image of size <<w, h>>.
Inside(box, size) ==
    /\ 0 <= box[1] /\ 0 <= box[2]
    /\ box[3] <= size[1] /\ box[4] <= size[2]

GenerateReturned == ret.op = "process_generate_mode" /\ ~ret.exc

\* C1: a successful process_generate_mode call on an image of any size, with
\* either value of the random-crop flag, leaves exactly patches_per_image
\* files {stem}_p000 .. in hr/ and the same names in lr/; every HR patch is
\* HR_PATCH x HR_PATCH, cut from a box of that size lying within the (possibly
\* upscaled) image, and every LR patch is LR_PATCH x LR_PATCH.
C1_GeneratePatches ==
    GenerateReturned =>
        LET names == {Named(Stem(ret.hf.path), "_p", i) : i \in 0 .. ret.n - 1}
        IN  /\ DOMAIN hrDir = names
            /\ DOMAIN lrDir = names
            /\ Cardinality(DOMAIN hrDir) = ret.n
            /\ Cardinality(DOMAIN lrDir) = ret.n
            /\ \A nm \in names :
                  /\ hrDir[nm].w = HR_PATCH /\ hrDir[nm].h = HR_PATCH
                  /\ hrDir[nm].box[3] - hrDir[nm].box[1] = HR_PATCH
                  /\ hrDir[nm].box[4] - hrDir[nm].box[2] = HR_PATCH
                  /\ Inside(hrDir[nm].box, hrDir[nm].of)
                  /\ hrDir[nm].src = ret.hf.path
                  /\ lrDir[nm].w = LR_PATCH /\ lrDir[nm].h = LR_PATCH

\* An image narrower than MIN_HR_DIM went through with random cropping on and
\* left its six pairs.
C1_Witness ==
    /\ GenerateReturned
    /\ ret.random_crop_enabled
    /\ ret.hf.w < MIN_HR_DIM
    /\ ret.hf.h > ret.hf.w
    /\ ret.n = PATCHES_PER_IMAGE
    /\ Cardinality(DOMAIN hrDir) = PATCHES_PER_IMAGE

CropReturned == ret.op \in {"center_crop", "random_crop"}

\* C2: for an image at least as large as the crop, center_crop and random_crop
\* return an offset with left >= 0, top >= 0, left + crop_w <= width and
\* top + crop_h <= height, whatever the pseudorandom source returns.
C2_CropOffsetInBounds ==
    (CropReturned /\ ret.img.w >= ret.crop_w /\ ret.img.h >= ret.crop_h) =>
        /\ ret.off[1] >= 0
        /\ ret.off[2] >= 0
        /\ ret.off[1] + ret.crop_w <= ret.img.w
        /\ ret.off[2] + ret.crop_h <= ret.img.h

\* random_crop drew the largest left offset there is, and a top offset.
C2_Witness ==
    /\ ret.op = "random_crop"
    /\ ret.img.w > ret.crop_w
    /\ ret.img.h > ret.crop_h
    /\ ret.off[1] + ret.crop_w = ret.img.w
    /\ ret.off[2] > 0

\* The extraction of source file f raises.
Raises(f) ==
    \/ f.fault.kind = "load"
    \/ f.fault.kind = "save" /\ f.fault.after < 2 * PATCHES_PER_IMAGE

RECURSIVE RaisingPaths(_)
\* The paths of the raising files among fs, in order.
RaisingPaths(fs) ==
    IF fs = <<>> THEN <<>>
    ELSE IF Raises(Head(fs)) THEN <<Head(fs).path>> \o RaisingPaths(Tail(fs))
    ELSE RaisingPaths(Tail(fs))

\* C3: batch_process in generate mode isolates failures per file: no file's
\* error ends the run; in the loop there is a next file to go through or the
\* loop can finish; and when it is done every file has been gone through,
\* each raising file has been reported (and no other), every file that did
\* not raise has its patches in hr/ and lr/, and the processed count is the
\* number of files that did not raise.
C3_FailureIsolation ==
    /\ mode = "generate" => pc # "raised"
    /\ pc = "loop" => (idx < Len(hr_files) \/ ENABLED BatchFinish)
    /\ pc = "done" =>
          /\ idx = Len(hr_files)
          /\ errors = RaisingPaths(hr_files)
          /\ processed = Cardinality({i \in 1 .. Len(hr_files) : ~Raises(hr_files[i])})
          /\ \A i \in 1 .. Len(hr_files) :
                ~Raises(hr_files[i]) =>
                    \A k \in 0 .. PATCHES_PER_IMAGE - 1 :
                        /\ Named(Stem(hr_files[i].path), "_p", k) \in DOMAIN hrDir
                        /\ Named(Stem(hr_files[i].path), "_p", k) \in DOMAIN lrDir

\* A batch whose first file raised and whose second was processed all the same.
C3_Witness ==
    /\ pc = "done"
    /\ Len(hr_files) = 2
    /\ Raises(hr_files[1])
    /\ ~Raises(hr_files[2])
    /\ processed = 1
    /\ Len(errors) = 1

\* C4 (as claimed): at the end of a batch run, failures included, hr/ and lr/
\* hold the same names and every LR file is LR_PATCH x LR_PATCH.
C4_AsClaimed ==
    pc = "done" =>
        /\ DOMAIN hrDir = DOMAIN lrDir
        /\ \A nm \in DOMAIN lrDir : lrDir[nm].w = LR_PATCH /\ lrDir[nm].h = LR_PATCH

OutputFolder == [dirs |-> dirs, hr |-> hrDir, lr |-> lrDir]

\* C5 (as claimed): a mode other than "generate" fails the run before any
\* processing: no image is opened, no patch is written, and the output folder
\* is as it was before the call.
C5_AsClaimed ==
    pc = "raised" => (opened = {} /\ OutputFolder = before)

\* C5 (amended): a mode other than "generate" fails the run (and only such a
\* mode does) before any processing: no image is opened, nothing is cropped,
\* no patch file is written or changed; of the output folder only the two
\* directories hr/ and lr/ are new, made before the mode is looked at.
C5_UnknownModeFailsFast ==
    /\ pc \in {"loop", "done"} => mode = "generate"
    /\ pc = "raised" =>
          /\ mode # "generate"
          /\ opened = {}
          /\ crops = <<>>
          /\ processed = 0
          /\ hrDir = before.hr
          /\ lrDir = before.lr
          /\ dirs = before.dirs \cup {HR_OUT, LR_OUT}

\* batch_process was given an unknown mode and raised.
C5_Witness == pc = "raised" /\ mode = "paired" /\ Len(hr_files) > 0

PairedReturned == ret.op = "process_paired_mode" /\ ~ret.exc

\* The two images of a process_paired_mode call once ensure_min_size has
\* been applied to them.
PairedHRImage == ensure_min_size(Image(ret.hf.path, ret.hf.w, ret.hf.h), HR_PATCH)
PairedLRImage == ensure_min_size(Image(ret.lf.path, ret.lf.w, ret.lf.h), LR_PATCH)

\* |scale_w - scale_h| against 0.1, on the exact fractions.
AspectCross == Abs(PairedHRImage.w * PairedLRImage.h - PairedHRImage.h * PairedLRImage.w)
AspectOver == 10 * AspectCross > PairedLRImage.w * PairedLRImage.h
AspectOnTie == 10 * AspectCross = PairedLRImage.w * PairedLRImage.h

\* |(scale_w + scale_h)/2 - UPSCALE| > 0.5, on the exact fractions.
ScaleOver ==
    LET num == PairedHRImage.w * PairedLRImage.h + PairedHRImage.h * PairedLRImage.w
        den == 2 * PairedLRImage.w * PairedLRImage.h
    IN  2 * Abs(num - UPSCALE * den) > den

\* The call left one generate-mode pair {stem}_p000 made of the HR image
\* alone, and nothing else.
FellBack ==
    LET nm == Named(Stem(ret.hf.path), "_p", 0)
    IN  /\ DOMAIN hrDir = {nm}
        /\ DOMAIN lrDir = {nm}
        /\ hrDir[nm].src = ret.hf.path
        /\ lrDir[nm].src = ret.hf.path
        /\ lrDir[nm].box = hrDir[nm].box

\* The call left its three (one without random cropping) {stem}_paired_p00i
\* pairs, the LR patches cut from the LR image, and nothing else.
WrotePaired ==
    LET names == {Named(Stem(ret.hf.path), "_paired_p", i) :
                     i \in 0 .. (IF ret.random_crop_enabled THEN 2 ELSE 0)}
    IN  /\ DOMAIN hrDir = names
        /\ DOMAIN lrDir = names
        /\ \A nm \in names : hrDir[nm].src = ret.hf.path /\ lrDir[nm].src = ret.lf.path

\* C6 (as claimed): process_paired_mode falls back to one generate-mode pair
\* exactly when |scale_w - scale_h| > 0.1 or |scale - UPSCALE| > 0.5, and
\* writes only {stem}_paired_* files when neither holds.
C6_AsClaimed ==
    PairedReturned =>
        IF AspectOver \/ ScaleOver THEN FellBack ELSE WrotePaired

\* C6 (amended): when |scale_w - scale_h| > 0.1 or |scale - UPSCALE| > 0.5
\* the call leaves exactly one generate-mode pair {stem}_p000 made of the HR
\* image alone (no {stem}_paired_* file, nothing of the LR image); when
\* neither holds and |scale_w - scale_h| is not exactly 0.1 it leaves only
\* {stem}_paired_* files; when |scale_w - scale_h| is exactly 0.1 the
\* rounding error of the doubles decides between the two.
C6_FallbackRule ==
    PairedReturned =>
        /\ (AspectOver \/ ScaleOver) => FellBack
        /\ (~AspectOver /\ ~AspectOnTie /\ ~ScaleOver) => WrotePaired
        /\ FellBack \/ WrotePaired

\* A pair of true scale 6 against UPSCALE = 4, random cropping on, fell back.
C6_Witness ==
    /\ PairedReturned
    /\ ret.random_crop_enabled
    /\ PairedHRImage.w = 6 * PairedLRImage.w
    /\ PairedHRImage.h = 6 * PairedLRImage.h
    /\ ~AspectOver
    /\ FellBack

\* C7: two full runs of generate mode over the same files in the same order
\* take the same crops: the second process's crops (file, patch index, left,
\* top), in order, are those of the first.
C7_RunsRepeat ==
    (pc = "done" /\ run = 2) => crops = prevCrops

\* A second run is done over two files, with a random crop off the origin.
C7_Witness ==
    /\ pc = "done"
    /\ run = 2
    /\ Len(hr_files) = 2
    /\ \E k \in 1 .. Len(crops) : crops[k][1].stem = 2 /\ crops[k][3] > 0
    /\ \E k \in 1 .. Len(crops) : crops[k][1].stem = 1 /\ crops[k][4] > 0

\* scale = (scale_w + scale_h)/2 of a written pair, as a fraction, from the
\* sizes of the images the two patches were cut from.
PairNum(hp, lp) == hp.of[1] * lp.of[2] + hp.of[2] * lp.of[1]
PairDen(hp, lp) == 2 * lp.of[1] * lp.of[2]

\* |a - b * scale| <= 1 for an HR coordinate a and an LR coordinate b.
WithinOnePixel(a, b, hp, lp) ==
    Abs(a * PairDen(hp, lp) - b * PairNum(hp, lp)) <= PairDen(hp, lp)

\* C8 (as claimed): every pair process_paired_mode writes without fallback is
\* aligned: the HR crop box is the LR crop box mapped into HR coordinates, up
\* to one HR pixel.
C8_AsClaimed ==
    (PairedReturned /\ WrotePaired) =>
        \A nm \in DOMAIN hrDir :
            \A k \in 1 .. 4 :
                WithinOnePixel(hrDir[nm].box[k], lrDir[nm].box[k], hrDir[nm], lrDir[nm])

\* C9: ensure_min_size returns the image as it is when its smaller side is at
\* least min_size; otherwise the smaller side becomes min_size exactly and
\* the larger one larger * min_size / smaller rounded to an integer.
C9_EnsureMinSize ==
    ret.op = "ensure_min_size" =>
        LET small == Min(ret.img.w, ret.img.h)
            Scaled(side, out) ==
                2 * Abs(out * small - side * ret.min_size) <= small
        IN  IF small >= ret.min_size
            THEN ret.out = ret.img
            ELSE /\ Min(ret.out.w, ret.out.h) = ret.min_size
                 /\ Scaled(ret.img.w, ret.out.w)
                 /\ Scaled(ret.img.h, ret.out.h)
                 /\ ret.out.src = ret.img.src

\* An image too small and not square was resized, its larger side to a
\* fraction that had to be rounded up.
C9_Witness ==
    /\ ret.op = "ensure_min_size"
    /\ ret.img.w < ret.min_size
    /\ ret.img.h > ret.img.w
    /\ ret.out.w = ret.min_size
    /\ ret.out.h * ret.img.w > ret.img.h * ret.min_size

\* C10: in process_paired_mode without fallback the HR crop offset is
\* round(l_left * scale), round(l_top * scale) clamped to
\* [0, hr_width - HR_PATCH], [0, hr_height - HR_PATCH], so the HR crop lies
\* within the HR image.
C10_HRCropInBounds ==
    (PairedReturned /\ WrotePaired) =>
        \A nm \in DOMAIN hrDir :
            LET hp == hrDir[nm]
                lp == lrDir[nm]
                Mapped(k) ==
                    \E r \in 0 .. (lp.box[k] * PairNum(hp, lp)) \div PairDen(hp, lp) + 1 :
                        /\ 2 * Abs(r * PairDen(hp, lp) - lp.box[k] * PairNum(hp, lp))
                               <= PairDen(hp, lp)
                        /\ hp.box[k] = Min(Max(0, r), hp.of[k] - HR_PATCH)
            IN  /\ Mapped(1)
                /\ Mapped(2)
                /\ Inside(hp.box, hp.of)
                /\ hp.box[3] = hp.box[1] + HR_PATCH
                /\ hp.box[4] = hp.box[2] + HR_PATCH

\* A pair was written whose mapped offset lay past the HR image and was
\* clamped to its edge.
C10_Witness ==
    /\ PairedReturned
    /\ WrotePaired
    /\ \E nm \in DOMAIN hrDir :
          /\ lrDir[nm].box[1] * PairNum(hrDir[nm], lrDir[nm])
                 > (hrDir[nm].of[1] - HR_PATCH + 1) * PairDen(hrDir[nm], lrDir[nm])
          /\ hrDir[nm].box[1] = hrDir[nm].of[1] - HR_PATCH

====
